---- MODULE Spec2Model ----
(***************************************************************************)
(* Baselom core: the pitch-count state machine (engine.apply_pitch), the   *)
(* state validator it depends on (validators.validate_state) and the       *)
(* bootstrap (engine.initial_game_state), over the immutable GameState     *)
(* record of models.py.                                                    *)
(*                                                                         *)
(* A GameState is a record; apply_pitch is a pure function, modelled as an *)
(* operator returning either a raise or a (new_state, event) pair.  The    *)
(* state machine is a driver that holds one GameState and feeds it to      *)
(* apply_pitch with a pitch label, keeping the returned state; when the    *)
(* call raises, the driver still holds the state it passed in.  The other  *)
(* entry points (initial_game_state, the GameState constructor, the JSON   *)
(* serializer) are further operations of the driver, each recorded in call.*)
(***************************************************************************)
EXTENDS Integers, Sequences, FiniteSets

VARIABLES
    state,         \* the GameState the driver holds
    prev,          \* the GameState passed to the last apply_pitch call
    pitch_result,  \* the label passed to the last call (NoPitch before any)
    raised,        \* the exception class the last call raised, or NoError
    message,       \* the message of that exception, or NoMessage
    event,         \* <<event record>> returned by the last call, or <<>>
    call,          \* the last operation called and its argument besides the state
    pa_calls       \* apply_pitch calls that returned in the plate appearance under
                   \* way, fouls that left a two-strike count as it was not counted

vars == <<state, prev, pitch_result, raised, message, event, call, pa_calls>>

----------------------------------------------------------------------------
(* Bounds of the model *)

\* apply_pitch is driven while inning <= MaxInning (inning is unbounded in the code)
MaxInning == 2
\* largest score component a harness-built state starts with
MaxScore == 1
\* apply_pitch is driven while both score components are <= RunCap
RunCap == 4

----------------------------------------------------------------------------
(* Values *)

\* Python's None, for an empty base and an absent batter/pitcher
None == "None"

NoPitch == "no_pitch"
NoCall == [op |-> "none"]
NoError == "no_error"
ValidationError == "ValidationError"
StateError == "StateError"

\* conftest.py
HOME_LINEUP == <<"h1", "h2", "h3", "h4", "h5", "h6", "h7", "h8", "h9">>
AWAY_LINEUP == <<"a1", "a2", "a3", "a4", "a5", "a6", "a7", "a8", "a9">>

\* Every player identifier of the model, in Python's string order (sorted())
PlayerOrder == AWAY_LINEUP \o HOME_LINEUP

Rank(player) == CHOOSE i \in 1..Len(PlayerOrder) : PlayerOrder[i] = player

\* sorted(S) for a set S of player identifiers
RECURSIVE sorted(_)
sorted(S) ==
    IF S = {} THEN <<>>
    ELSE LET least == CHOOSE p \in S : \A q \in S : Rank(p) <= Rank(q)
         IN  <<least>> \o sorted(S \ {least})

\* An exception or validation message: its fixed text and the values formatted into it
Msg(text, ints, strs) == [text |-> text, ints |-> ints, strs |-> strs]

NoMessage == Msg("", <<>>, <<>>)

----------------------------------------------------------------------------
(* validators.py *)

MAX_OUTS == 2
MAX_BALLS == 3
MAX_STRIKES == 2
MIN_INNING == 1
LINEUP_SIZE == 9

\* state.lineups.get(team, ())
lineups_get(lineups, team) ==
    IF team \in DOMAIN lineups THEN lineups[team] ELSE <<>>

\* The seen/duplicates loop: the players met again after a first occurrence
lineup_duplicates(lineup) ==
    {lineup[i] : i \in {k \in 1..Len(lineup) : \E j \in 1..(k - 1) : lineup[j] = lineup[k]}}

\* Variant of the per-team pass that goes on to the next team once the size is
\* wrong (the duplicate loop in an else branch): C15 must tell it apart.
team_errors_stops_after_size(s, team) ==
    LET lineup == lineups_get(s.lineups, team)
        count == Len(lineup)
        duplicates == sorted(lineup_duplicates(lineup))
    IN  IF count # LINEUP_SIZE
        THEN <<Msg("lineup must contain exactly {LINEUP_SIZE} players, got {count} for {team}",
                   <<LINEUP_SIZE, count>>, <<team>>)>>
        ELSE [i \in 1..Len(duplicates) |->
                 Msg("duplicate player '{duplicate}' in {team} lineup", <<>>, <<duplicates[i], team>>)]

\* One pass of the "for team in (home, away)" loop: the errors it appends
team_errors(s, team) ==
    LET lineup == lineups_get(s.lineups, team)
        count == Len(lineup)
        duplicates == sorted(lineup_duplicates(lineup))
    IN  (IF count # LINEUP_SIZE
            THEN <<Msg("lineup must contain exactly {LINEUP_SIZE} players, got {count} for {team}",
                       <<LINEUP_SIZE, count>>, <<team>>)>>
            ELSE <<>>)
        \o [i \in 1..Len(duplicates) |->
               Msg("duplicate player '{duplicate}' in {team} lineup", <<>>, <<duplicates[i], team>>)]

\* The seen_bases loop over bases i..3: one error per runner already met on a lower base
RECURSIVE base_errors(_, _)
base_errors(bases, i) ==
    IF i > Len(bases) THEN <<>>
    ELSE (IF bases[i] # None /\ \E j \in 1..(i - 1) : bases[j] = bases[i]
             THEN <<Msg("duplicate runner '{runner}' found on multiple bases", <<>>, <<bases[i]>>)>>
             ELSE <<>>)
         \o base_errors(bases, i + 1)

\* Variant of the validator with only the checks on outs, inning, scores and
\* lineups (no check of balls, strikes or runners): C16 must tell it apart.
validate_errors_without_count_checks(s) ==
    (IF s.outs < 0 \/ s.outs > MAX_OUTS
        THEN <<Msg("outs must be in range [0, {MAX_OUTS}], got {state.outs}",
                   <<MAX_OUTS, s.outs>>, <<>>)>>
        ELSE <<>>)
    \o (IF s.inning < MIN_INNING
        THEN <<Msg("inning must be >= {MIN_INNING}, got {state.inning}",
                   <<MIN_INNING, s.inning>>, <<>>)>>
        ELSE <<>>)
    \o (IF s.score.home < 0 \/ s.score.away < 0
        THEN <<Msg("scores must be non-negative, got {scores}",
                   <<s.score.home, s.score.away>>, <<>>)>>
        ELSE <<>>)
    \o team_errors(s, "home")
    \o team_errors(s, "away")

validate_errors(s) ==
    (IF s.outs < 0 \/ s.outs > MAX_OUTS
        THEN <<Msg("outs must be in range [0, {MAX_OUTS}], got {state.outs}",
                   <<MAX_OUTS, s.outs>>, <<>>)>>
        ELSE <<>>)
    \o (IF s.balls < 0 \/ s.balls > MAX_BALLS
        THEN <<Msg("balls must be in range [0, {MAX_BALLS}], got {state.balls}",
                   <<MAX_BALLS, s.balls>>, <<>>)>>
        ELSE <<>>)
    \o (IF s.strikes < 0 \/ s.strikes > MAX_STRIKES
        THEN <<Msg("strikes must be in range [0, {MAX_STRIKES}], got {state.strikes}",
                   <<MAX_STRIKES, s.strikes>>, <<>>)>>
        ELSE <<>>)
    \o (IF s.inning < MIN_INNING
        THEN <<Msg("inning must be >= {MIN_INNING}, got {state.inning}",
                   <<MIN_INNING, s.inning>>, <<>>)>>
        ELSE <<>>)
    \o (IF s.score.home < 0 \/ s.score.away < 0
        THEN <<Msg("scores must be non-negative, got {scores}",
                   <<s.score.home, s.score.away>>, <<>>)>>
        ELSE <<>>)
    \o team_errors(s, "home")
    \o team_errors(s, "away")
    \o base_errors(s.bases, 1)

\* ValidationResult(is_valid=not errors, errors=tuple(errors), warnings=tuple(warnings))
validate_state(s) ==
    LET errors == validate_errors(s)
    IN  [is_valid |-> errors = <<>>, errors |-> errors, warnings |-> <<>>]

----------------------------------------------------------------------------
(* models.py *)

Score(home, away) == [home |-> home, away |-> away]

\* MappingProxyType({team: tuple(players) ...})
normalize_lineups(lineups) == [team \in DOMAIN lineups |-> lineups[team]]

GameState(inning, top, outs, balls, strikes, bases, score, batter, pitcher, lineups) ==
    [inning |-> inning, top |-> top, outs |-> outs, balls |-> balls, strikes |-> strikes,
     bases |-> bases, score |-> score, current_batter_id |-> batter,
     current_pitcher_id |-> pitcher, lineups |-> lineups]

\* dataclasses.replace(state, ...) for the fields the engine replaces
replace(s, fields) ==
    [f \in DOMAIN s |-> IF f \in DOMAIN fields THEN fields[f] ELSE s[f]]

----------------------------------------------------------------------------
(* engine.py *)

VALID_PITCH_RESULTS == {"ball", "strike_called", "strike_swinging", "foul", "foul_tip"}

Raise(kind, msg) == [raised |-> kind, message |-> msg]

Return(new_state, event_type) ==
    [raised |-> NoError,
     new_state |-> new_state,
     event |-> [event_type |-> event_type, balls |-> new_state.balls,
                strikes |-> new_state.strikes, outs |-> new_state.outs]]

\* Raises for the first failing check, else returns None (NoError)
_validate_lineup(team, lineup) ==
    IF Len(lineup) # 9
    THEN Raise(ValidationError,
               Msg("{team}_lineup must contain exactly 9 players, got {len(lineup)}",
                   <<Len(lineup)>>, <<team>>))
    ELSE LET duplicates == {lineup[i] : i \in {k \in 1..Len(lineup) :
                               Cardinality({j \in 1..Len(lineup) : lineup[j] = lineup[k]}) > 1}}
         IN  IF duplicates # {}
             THEN Raise(ValidationError,
                        Msg("{team}_lineup contains duplicate player '{duplicate}'",
                            <<>>, <<team, sorted(duplicates)[1]>>))
             ELSE [raised |-> NoError]

\* Variant of initial_game_state that validates the away lineup first: the
\* bootstrap property C17 must tell it apart.
initial_game_state_away_first(home_lineup, away_lineup) ==
    LET home == _validate_lineup("home", home_lineup)
        away == _validate_lineup("away", away_lineup)
    IN  IF away.raised # NoError THEN away
        ELSE IF home.raised # NoError THEN home
        ELSE [raised |-> NoError,
              new_state |->
                GameState(1, TRUE, 0, 0, 0, <<None, None, None>>, Score(0, 0),
                          IF away_lineup # <<>> THEN away_lineup[1] ELSE None,
                          IF home_lineup # <<>> THEN home_lineup[1] ELSE None,
                          normalize_lineups([home |-> home_lineup, away |-> away_lineup]))]

initial_game_state(home_lineup, away_lineup) ==
    LET home == _validate_lineup("home", home_lineup)
        away == _validate_lineup("away", away_lineup)
    IN  IF home.raised # NoError THEN home
        ELSE IF away.raised # NoError THEN away
        ELSE [raised |-> NoError,
              new_state |->
                GameState(1, TRUE, 0, 0, 0, <<None, None, None>>, Score(0, 0),
                          IF away_lineup # <<>> THEN away_lineup[1] ELSE None,
                          IF home_lineup # <<>> THEN home_lineup[1] ELSE None,
                          normalize_lineups([home |-> home_lineup, away |-> away_lineup]))]

\* Variant of _record_out that adds an inning on every flip of the half (the
\* "if state.top" test dropped): the rollover property C5 must tell it apart.
_record_out_inning_every_flip(s, event_type) ==
    LET outs == s.outs + 1
        over == outs >= 3
    IN  <<replace(s, [outs |-> IF over THEN 0 ELSE outs,
                      balls |-> 0,
                      strikes |-> 0,
                      bases |-> IF over THEN <<None, None, None>> ELSE s.bases,
                      top |-> IF over THEN ~s.top ELSE s.top,
                      inning |-> IF over THEN s.inning + 1 ELSE s.inning]),
          event_type>>

\* Variant of _record_out that clears the bases on every out (the assignment
\* hoisted out of "if outs >= 3"): the frame property C6 must tell it apart.
_record_out_clears_bases(s, event_type) ==
    LET outs == s.outs + 1
        over == outs >= 3
    IN  <<replace(s, [outs |-> IF over THEN 0 ELSE outs,
                      balls |-> 0,
                      strikes |-> 0,
                      bases |-> <<None, None, None>>,
                      top |-> IF over THEN ~s.top ELSE s.top,
                      inning |-> IF over /\ ~s.top THEN s.inning + 1 ELSE s.inning]),
          event_type>>

\* Variant of _record_out that rolls over one out late ("outs > 3"): the range
\* invariant C9 must tell it apart.
_record_out_late_rollover(s, event_type) ==
    LET outs == s.outs + 1
        over == outs > 3
    IN  <<replace(s, [outs |-> IF over THEN 0 ELSE outs,
                      balls |-> 0,
                      strikes |-> 0,
                      bases |-> IF over THEN <<None, None, None>> ELSE s.bases,
                      top |-> IF over THEN ~s.top ELSE s.top,
                      inning |-> IF over /\ ~s.top THEN s.inning + 1 ELSE s.inning]),
          event_type>>

\* Variant of _record_out that brings up the other team's first batter when
\* the half flips: the frame property C20 must tell it apart.
_record_out_switches_batter(s, event_type) ==
    LET outs == s.outs + 1
        over == outs >= 3
    IN  <<replace(s, [outs |-> IF over THEN 0 ELSE outs,
                      balls |-> 0,
                      strikes |-> 0,
                      bases |-> IF over THEN <<None, None, None>> ELSE s.bases,
                      top |-> IF over THEN ~s.top ELSE s.top,
                      inning |-> IF over /\ ~s.top THEN s.inning + 1 ELSE s.inning,
                      current_batter_id |->
                          IF over THEN s.lineups[IF s.top THEN "home" ELSE "away"][1]
                                  ELSE s.current_batter_id]),
          event_type>>

\* Variant of _record_out that ends the half one out early ("outs >= 2"): the
\* ordering property C21 must tell it apart.
_record_out_flips_early(s, event_type) ==
    LET outs == s.outs + 1
        over == outs >= 2
    IN  <<replace(s, [outs |-> IF over THEN 0 ELSE outs,
                      balls |-> 0,
                      strikes |-> 0,
                      bases |-> IF over THEN <<None, None, None>> ELSE s.bases,
                      top |-> IF over THEN ~s.top ELSE s.top,
                      inning |-> IF over /\ ~s.top THEN s.inning + 1 ELSE s.inning]),
          event_type>>

_record_out(s, event_type) ==
    LET outs == s.outs + 1
        over == outs >= 3
    IN  <<replace(s, [outs |-> IF over THEN 0 ELSE outs,
                      balls |-> 0,
                      strikes |-> 0,
                      bases |-> IF over THEN <<None, None, None>> ELSE s.bases,
                      top |-> IF over THEN ~s.top ELSE s.top,
                      inning |-> IF over /\ ~s.top THEN s.inning + 1 ELSE s.inning]),
          event_type>>

\* Variant of _process_walk that leaves the strikes as they were (strikes=0
\* dropped from the replace): the count-reset property C12 must tell it apart.
_process_walk_keeps_strikes(s) ==
    LET runs_scored == IF s.bases[3] # None THEN 1 ELSE 0
        bases == <<s.current_batter_id, s.bases[1], s.bases[2]>>
        score == IF runs_scored # 0
                 THEN IF s.top
                      THEN Score(s.score.home, s.score.away + runs_scored)
                      ELSE Score(s.score.home + runs_scored, s.score.away)
                 ELSE s.score
    IN  replace(s, [bases |-> bases, balls |-> 0, score |-> score])

\* Variant of _process_walk that shifts the runners but leaves first base empty
\* (the "bases[0] = state.current_batter_id" line dropped): C14 must tell it apart.
_process_walk_no_batter(s) ==
    LET runs_scored == IF s.bases[3] # None THEN 1 ELSE 0
        bases == <<None, s.bases[1], s.bases[2]>>
        score == IF runs_scored # 0
                 THEN IF s.top
                      THEN Score(s.score.home, s.score.away + runs_scored)
                      ELSE Score(s.score.home + runs_scored, s.score.away)
                 ELSE s.score
    IN  replace(s, [bases |-> bases, balls |-> 0, strikes |-> 0, score |-> score])

\* Variant of _process_walk that credits the run to the fielding team (the
\* branches of "if state.top" swapped): the scoring property C3 must tell it apart.
_process_walk_wrong_team(s) ==
    LET runs_scored == IF s.bases[3] # None THEN 1 ELSE 0
        bases == <<s.current_batter_id, s.bases[1], s.bases[2]>>
        score == IF runs_scored # 0
                 THEN IF s.top
                      THEN Score(s.score.home + runs_scored, s.score.away)
                      ELSE Score(s.score.home, s.score.away + runs_scored)
                 ELSE s.score
    IN  replace(s, [bases |-> bases, balls |-> 0, strikes |-> 0, score |-> score])

_process_walk(s) ==
    LET runs_scored == IF s.bases[3] # None THEN 1 ELSE 0
        bases == <<s.current_batter_id, s.bases[1], s.bases[2]>>
        score == IF runs_scored # 0
                 THEN IF s.top
                      THEN Score(s.score.home, s.score.away + runs_scored)
                      ELSE Score(s.score.home + runs_scored, s.score.away)
                 ELSE s.score
    IN  replace(s, [bases |-> bases, balls |-> 0, strikes |-> 0, score |-> score])

\* Variant of the branch in which a foul always adds a strike (the
\* "if state.strikes < 2" test dropped): the no-op property C11 must tell it apart.
pitch_transition_foul_unguarded(s, pitch) ==
    IF pitch = "ball"
    THEN IF s.balls < 3
         THEN <<replace(s, [balls |-> s.balls + 1]), pitch>>
         ELSE <<_process_walk(s), "walk">>
    ELSE IF pitch = "foul"
    THEN <<replace(s, [strikes |-> s.strikes + 1]), pitch>>
    ELSE IF pitch = "foul_tip"
    THEN IF s.strikes >= 2
         THEN _record_out(s, "strikeout_swinging")
         ELSE <<replace(s, [strikes |-> s.strikes + 1]), pitch>>
    ELSE IF s.strikes < 2
         THEN <<replace(s, [strikes |-> s.strikes + 1]), pitch>>
         ELSE _record_out(s, IF pitch = "strike_called"
                             THEN "strikeout_looking" ELSE "strikeout_swinging")

\* Variant of the branch with the strikeout suffixes swapped: the label table
\* C13 must tell it apart.
pitch_transition_swapped_suffix(s, pitch) ==
    IF pitch = "ball"
    THEN IF s.balls < 3
         THEN <<replace(s, [balls |-> s.balls + 1]), pitch>>
         ELSE <<_process_walk(s), "walk">>
    ELSE IF pitch = "foul"
    THEN IF s.strikes < 2
         THEN <<replace(s, [strikes |-> s.strikes + 1]), pitch>>
         ELSE <<s, pitch>>
    ELSE IF pitch = "foul_tip"
    THEN IF s.strikes >= 2
         THEN _record_out(s, "strikeout_swinging")
         ELSE <<replace(s, [strikes |-> s.strikes + 1]), pitch>>
    ELSE IF s.strikes < 2
         THEN <<replace(s, [strikes |-> s.strikes + 1]), pitch>>
         ELSE _record_out(s, IF pitch = "strike_called"
                             THEN "strikeout_swinging" ELSE "strikeout_looking")

\* Variant of the branch in which a ball also clears the strikes: the frame
\* property C10 must tell it apart.
pitch_transition_ball_clears_strikes(s, pitch) ==
    IF pitch = "ball"
    THEN IF s.balls < 3
         THEN <<replace(s, [balls |-> s.balls + 1, strikes |-> 0]), pitch>>
         ELSE <<_process_walk(s), "walk">>
    ELSE IF pitch = "foul"
    THEN IF s.strikes < 2
         THEN <<replace(s, [strikes |-> s.strikes + 1]), pitch>>
         ELSE <<s, pitch>>
    ELSE IF pitch = "foul_tip"
    THEN IF s.strikes >= 2
         THEN _record_out(s, "strikeout_swinging")
         ELSE <<replace(s, [strikes |-> s.strikes + 1]), pitch>>
    ELSE IF s.strikes < 2
         THEN <<replace(s, [strikes |-> s.strikes + 1]), pitch>>
         ELSE _record_out(s, IF pitch = "strike_called"
                             THEN "strikeout_looking" ELSE "strikeout_swinging")

\* Variant of the branch that treats a foul tip at two strikes as a foul (the
\* count stays, nobody is out): the plate-appearance bound C22 must tell it apart.
pitch_transition_foul_tip_as_foul(s, pitch) ==
    IF pitch = "ball"
    THEN IF s.balls < 3
         THEN <<replace(s, [balls |-> s.balls + 1]), pitch>>
         ELSE <<_process_walk(s), "walk">>
    ELSE IF pitch \in {"foul", "foul_tip"}
    THEN IF s.strikes < 2
         THEN <<replace(s, [strikes |-> s.strikes + 1]), pitch>>
         ELSE <<s, pitch>>
    ELSE IF s.strikes < 2
         THEN <<replace(s, [strikes |-> s.strikes + 1]), pitch>>
         ELSE _record_out(s, IF pitch = "strike_called"
                             THEN "strikeout_looking" ELSE "strikeout_swinging")

\* The branch on pitch_result of apply_pitch: <<new_state, event_type>>
pitch_transition(s, pitch) ==
    IF pitch = "ball"
    THEN IF s.balls < 3
         THEN <<replace(s, [balls |-> s.balls + 1]), pitch>>
         ELSE <<_process_walk(s), "walk">>
    ELSE IF pitch = "foul"
    THEN IF s.strikes < 2
         THEN <<replace(s, [strikes |-> s.strikes + 1]), pitch>>
         ELSE <<s, pitch>>
    ELSE IF pitch = "foul_tip"
    THEN IF s.strikes >= 2
         THEN _record_out(s, "strikeout_swinging")
         ELSE <<replace(s, [strikes |-> s.strikes + 1]), pitch>>
    ELSE IF s.strikes < 2
         THEN <<replace(s, [strikes |-> s.strikes + 1]), pitch>>
         ELSE _record_out(s, IF pitch = "strike_called"
                             THEN "strikeout_looking" ELSE "strikeout_swinging")

\* Variant of apply_pitch that raises the last validation error instead of the
\* first: the fail-fast property C7 must tell it apart.
apply_pitch_last_error(s, pitch) ==
    IF pitch \notin VALID_PITCH_RESULTS
    THEN Raise(ValidationError, Msg("invalid pitch_result '{pitch_result}'", <<>>, <<pitch>>))
    ELSE LET validation == validate_state(s)
         IN  IF ~validation.is_valid
             THEN Raise(ValidationError, validation.errors[Len(validation.errors)])
             ELSE IF s.outs > 2
             THEN Raise(StateError,
                        Msg("cannot apply pitch when half-inning is already complete", <<>>, <<>>))
             ELSE LET next == pitch_transition(s, pitch)
                  IN  Return(next[1], next[2])

\* Variant of apply_pitch that validates the state before the label: the
\* ordering property C8 must tell it apart.
apply_pitch_state_first(s, pitch) ==
    LET validation == validate_state(s)
    IN  IF ~validation.is_valid
        THEN Raise(ValidationError, validation.errors[1])
        ELSE IF pitch \notin VALID_PITCH_RESULTS
        THEN Raise(ValidationError, Msg("invalid pitch_result '{pitch_result}'", <<>>, <<pitch>>))
        ELSE IF s.outs > 2
        THEN Raise(StateError,
                   Msg("cannot apply pitch when half-inning is already complete", <<>>, <<>>))
        ELSE LET next == pitch_transition(s, pitch)
             IN  Return(next[1], next[2])

apply_pitch(s, pitch) ==
    IF pitch \notin VALID_PITCH_RESULTS
    THEN Raise(ValidationError, Msg("invalid pitch_result '{pitch_result}'", <<>>, <<pitch>>))
    ELSE LET validation == validate_state(s)
         IN  IF ~validation.is_valid
             THEN Raise(ValidationError, validation.errors[1])
             ELSE IF s.outs > 2
             THEN Raise(StateError,
                        Msg("cannot apply pitch when half-inning is already complete", <<>>, <<>>))
             ELSE LET next == pitch_transition(s, pitch)
                  IN  Return(next[1], next[2])

----------------------------------------------------------------------------
(* The driver *)

\* Labels a caller passes: the recognized ones and one that is not
\* ('strike' is the label the docstring of apply_pitch itself names)
PitchInputs == VALID_PITCH_RESULTS \cup {"strike"}

\* Lineups a game is started with
LineupInputs == {HOME_LINEUP, AWAY_LINEUP}

\* The event types with which a plate appearance ends
PlateAppearanceEnds == {"walk", "strikeout_looking", "strikeout_swinging"}

ApplyPitch(pitch) ==
    /\ state.inning <= MaxInning
    /\ state.score.home <= RunCap
    /\ state.score.away <= RunCap
    /\ \E r \in {apply_pitch(state, pitch)} :
           /\ prev' = state
           /\ pitch_result' = pitch
           /\ raised' = r.raised
           /\ message' = IF r.raised = NoError THEN NoMessage ELSE r.message
           /\ state' = IF r.raised = NoError THEN r.new_state ELSE state
           /\ event' = IF r.raised = NoError THEN <<r.event>> ELSE <<>>
           /\ call' = [op |-> "apply_pitch", arg |-> pitch]
           /\ pa_calls' = IF r.raised # NoError THEN pa_calls
                           ELSE IF r.event.event_type \in PlateAppearanceEnds THEN 0
                           ELSE IF r.event.event_type = "foul" /\ r.new_state = state
                           THEN pa_calls
                           ELSE pa_calls + 1

Next == \E pitch \in PitchInputs : ApplyPitch(pitch)

NoCallYet ==
    /\ prev = state
    /\ pitch_result = NoPitch
    /\ raised = NoError
    /\ message = NoMessage
    /\ event = <<>>
    /\ call = NoCall
    /\ pa_calls = 0

\* A game started by initial_game_state and advanced by apply_pitch only
Init ==
    /\ \E home \in LineupInputs, away \in LineupInputs :
          LET boot == initial_game_state(home, away)
          IN  /\ boot.raised = NoError
              /\ state = boot.new_state
    /\ NoCallYet

Spec == Init /\ [][Next]_vars

----------------------------------------------------------------------------
(* States built directly, as the tests build them with GameState(...) and  *)
(* replace(initial_state, ...)                                             *)

\* Lineups of the tests: bad_lineups["home"][:8], and nine entries naming a1 twice
SHORT_LINEUP == SubSeq(HOME_LINEUP, 1, 8)
DUP_LINEUP == <<"a1", "a1", "a2", "a3", "a4", "a5", "a6", "a7", "a8">>

\* Eight entries with h1 twice (a size error and a duplicate for one team), and
\* nine entries with two repeated identifiers, met in the order a2, a1
SHORT_DUP_LINEUP == <<"h1", "h1", "h2", "h3", "h4", "h5", "h6", "h7">>
TWO_DUP_LINEUP == <<"a2", "a1", "a2", "a1", "a3", "a4", "a5", "a6", "a7">>

VALID_LINEUPS == normalize_lineups([home |-> HOME_LINEUP, away |-> AWAY_LINEUP])

\* _DEFAULT_LINEUPS of models.py
DEFAULT_LINEUPS == normalize_lineups([home |-> <<>>, away |-> <<>>])

\* The eight occupancy patterns with distinct runners, and the batter standing on first
DistinctBases ==
    {<<b1, b2, b3>> : b1 \in {None, "a2"}, b2 \in {None, "a3"}, b3 \in {None, "a4"}}
        \cup {<<"a1", None, None>>}

\* A runner on more than one base
DuplicateBases == {<<"a1", "a1", None>>, <<"a2", None, "a2">>, <<"a3", "a3", "a3">>}

\* Every field within its range, lineups valid; bases with or without a duplicate
InRangeStates ==
    {GameState(inning, top, outs, balls, strikes, bases, Score(home, away),
               AWAY_LINEUP[1], HOME_LINEUP[1], VALID_LINEUPS) :
        inning \in {MIN_INNING, MaxInning}, top \in BOOLEAN,
        outs \in 0..MAX_OUTS, balls \in 0..MAX_BALLS, strikes \in 0..MAX_STRIKES,
        bases \in DistinctBases \cup DuplicateBases,
        home \in {0, MaxScore}, away \in {0, MaxScore}}

\* Each checked field either good or just outside its range
MalformedStates ==
    {GameState(inning, TRUE, outs, balls, strikes, bases, score,
               AWAY_LINEUP[1], HOME_LINEUP[1], normalize_lineups([home |-> hl, away |-> al])) :
        inning \in {MIN_INNING - 1, MIN_INNING},
        outs \in {-1, 0, MAX_OUTS + 1}, balls \in {-1, 0, MAX_BALLS + 1},
        strikes \in {-1, 0, MAX_STRIKES + 1},
        bases \in {<<None, None, None>>, <<"a3", "a3", "a3">>},
        score \in {Score(0, 0), Score(-1, 0), Score(0, -1)},
        hl \in {HOME_LINEUP, SHORT_LINEUP, DUP_LINEUP, SHORT_DUP_LINEUP},
        al \in {AWAY_LINEUP, SHORT_LINEUP, DUP_LINEUP, TWO_DUP_LINEUP}}

\* The initial_state fixture (batter and pitcher left at their default None)
\* with the count and the outs replaced, as the engine tests do
FixtureStates ==
    {GameState(1, TRUE, outs, balls, strikes, <<None, None, None>>, Score(0, 0),
               None, None, VALID_LINEUPS) :
        outs \in 0..MAX_OUTS, balls \in 0..MAX_BALLS, strikes \in 0..MAX_STRIKES}

\* Lineups left at the default, or naming one team only
SparseLineupStates ==
    {GameState(1, TRUE, 0, balls, 0, <<None, None, None>>, Score(0, 0), None, None, lineups) :
        balls \in {0, MAX_BALLS + 1},
        lineups \in {DEFAULT_LINEUPS, [home |-> HOME_LINEUP], [away |-> AWAY_LINEUP]}}

InitAny ==
    /\ state \in InRangeStates \cup MalformedStates \cup FixtureStates \cup SparseLineupStates
    /\ NoCallYet

SpecAny == InitAny /\ [][Next]_vars

----------------------------------------------------------------------------
(* Properties.  Each speaks of the last call: prev and pitch_result are its *)
(* arguments, raised/message its exception, state/event what it returned.  *)

Called == pitch_result # NoPitch
Recognized == pitch_result \in VALID_PITCH_RESULTS
Returned == Called /\ raised = NoError
PrevValid == validate_state(prev).is_valid
EmptyBases == <<None, None, None>>
OutPitches == {"strike_called", "strike_swinging", "foul_tip"}

\* The call was ball four on a state the engine accepted
Walk == Returned /\ pitch_result = "ball" /\ prev.balls = 3

\* C1: in every state reached from initial_game_state by apply_pitch calls, no
\* player identifier occupies more than one of the three base slots.
C1_NoRunnerOnTwoBases ==
    \A i, j \in 1..3 :
        (i # j /\ state.bases[i] # None) => state.bases[i] # state.bases[j]

\* C2: on ball four runners advance only as far as forced: the runner on second
\* stays unless first was occupied, the runner on third stays and does not
\* score unless first and second were both occupied.
C2_WalkAdvancesOnlyForced ==
    Walk =>
        /\ (prev.bases[1] = None) =>
               (state.bases[2] = prev.bases[2] /\ state.bases[3] = prev.bases[3])
        /\ (prev.bases[1] = None \/ prev.bases[2] = None) =>
               (state.bases[3] = prev.bases[3] /\ state.score = prev.score)

\* C3: a walk credits a run iff third base was occupied before it; then exactly
\* one run goes to the batting team (away if top, home otherwise) and the other
\* score is unchanged; otherwise both scores are unchanged.
C3_WalkRunIffThirdOccupied ==
    Walk =>
        IF prev.bases[3] # None
        THEN IF prev.top
             THEN state.score = [home |-> prev.score.home, away |-> prev.score.away + 1]
             ELSE state.score = [home |-> prev.score.home + 1, away |-> prev.score.away]
        ELSE state.score = prev.score

C3_Witness ==
    Walk /\ prev.bases[3] # None /\ ~prev.top /\ state.score.home = prev.score.home + 1

\* C4: a recognized pitch applied to a state with outs > 2 fails with StateError,
\* not with ValidationError.
C4_OutsOverTwoRaisesStateError ==
    (Called /\ Recognized /\ prev.outs > 2) => raised = StateError

\* C5: on a valid state with outs = 2 and strikes = 2, a pitch recording an out
\* yields outs 0, empty bases, count 0-0 and the half flipped; from the top the
\* inning is unchanged, from the bottom it grows by exactly 1.
C5_HalfInningRollover ==
    (Called /\ PrevValid /\ prev.outs = 2 /\ prev.strikes = 2 /\ pitch_result \in OutPitches) =>
        /\ raised = NoError
        /\ state.outs = 0
        /\ state.bases = EmptyBases
        /\ state.balls = 0
        /\ state.strikes = 0
        /\ state.top = ~prev.top
        /\ state.inning = IF prev.top THEN prev.inning ELSE prev.inning + 1

C5_Witness ==
    /\ Called /\ PrevValid /\ prev.outs = 2 /\ prev.strikes = 2 /\ pitch_result = "foul_tip"
    /\ prev.top /\ prev.bases # EmptyBases /\ prev.balls > 0
    /\ ~state.top /\ state.inning = prev.inning

\* C6: on a valid state with outs < 2 and strikes = 2, a pitch recording an out
\* increases outs by exactly 1 and leaves inning, top, bases and score unchanged.
C6_OutWithinHalfInning ==
    (Called /\ PrevValid /\ prev.outs < 2 /\ prev.strikes = 2 /\ pitch_result \in OutPitches) =>
        /\ raised = NoError
        /\ state.outs = prev.outs + 1
        /\ state.inning = prev.inning
        /\ state.top = prev.top
        /\ state.bases = prev.bases
        /\ state.score = prev.score

C6_Witness ==
    /\ Called /\ PrevValid /\ prev.outs = 1 /\ prev.strikes = 2
    /\ pitch_result = "strike_called"
    /\ prev.bases # EmptyBases /\ state.outs = 2

\* C7: a recognized pitch on a state failing validate_state raises
\* ValidationError with exactly the first of validate_state's errors, and
\* returns neither a successor state nor an event.
C7_InvalidStateRaisesFirstError ==
    (Called /\ Recognized /\ ~PrevValid) =>
        /\ raised = ValidationError
        /\ message = validate_state(prev).errors[1]
        /\ state = prev
        /\ event = <<>>

C7_Witness ==
    /\ Called /\ Recognized
    /\ Len(validate_state(prev).errors) >= 3
    /\ validate_state(prev).errors[1] # validate_state(prev).errors[2]
    /\ raised = ValidationError

C9_CountersInRange ==
    /\ state.balls \in 0..3
    /\ state.strikes \in 0..2
    /\ state.outs \in 0..2
    /\ state.inning >= 1
    /\ state.score.home >= 0
    /\ state.score.away >= 0

C9_Witness ==
    /\ Returned /\ pitch_result = "strike_swinging" /\ prev.outs = 2 /\ prev.strikes = 2
    /\ prev.balls = 3 /\ ~prev.top
    /\ state.inning = 2 /\ state.outs = 0

\* C10: on a valid state a pitch that does not end the plate appearance changes
\* one counter by one and nothing else: 'ball' with balls < 3 increments balls;
\* a strike, foul or foul tip with strikes < 2 increments strikes; the event
\* type is the pitch label.
C10_CountPitchFrame ==
    (Called /\ Recognized /\ PrevValid) =>
        /\ (pitch_result = "ball" /\ prev.balls < 3) =>
               /\ raised = NoError
               /\ state = [prev EXCEPT !.balls = prev.balls + 1]
               /\ event[1].event_type = pitch_result
        /\ (pitch_result # "ball" /\ prev.strikes < 2) =>
               /\ raised = NoError
               /\ state = [prev EXCEPT !.strikes = prev.strikes + 1]
               /\ event[1].event_type = pitch_result

C10_Witness ==
    /\ Called /\ PrevValid /\ pitch_result = "ball" /\ prev.balls = 2 /\ prev.strikes = 2
    /\ prev.bases # EmptyBases /\ prev.outs = 1
    /\ state.balls = 3 /\ state.strikes = 2

\* C11: a 'foul' on a valid state with two strikes changes nothing: the state
\* returned equals the state passed in every field, nothing is raised and the
\* event type is 'foul'.
C11_FoulAtTwoStrikesNoOp ==
    (Called /\ PrevValid /\ pitch_result = "foul" /\ prev.strikes = 2) =>
        /\ raised = NoError
        /\ state = prev
        /\ event[1].event_type = "foul"

C11_Witness ==
    /\ Called /\ PrevValid /\ pitch_result = "foul" /\ prev.strikes = 2
    /\ prev.balls = 1 /\ prev.outs = 2 /\ prev.bases # EmptyBases
    /\ state.strikes = 2 /\ state.outs = 2

Strikeouts == {"strikeout_looking", "strikeout_swinging"}

\* C12: whenever the event returned is a walk or a strikeout, the state
\* returned has balls = 0 and strikes = 0, and the event's balls, strikes and
\* outs are those of the state returned.
C12_CountResetOnWalkOrStrikeout ==
    (Returned /\ event[1].event_type \in Strikeouts \cup {"walk"}) =>
        /\ state.balls = 0
        /\ state.strikes = 0
        /\ event[1].balls = state.balls
        /\ event[1].strikes = state.strikes
        /\ event[1].outs = state.outs

C12_Witness ==
    /\ Returned /\ event[1].event_type = "walk"
    /\ prev.strikes = 2 /\ prev.outs = 1
    /\ state.strikes = 0 /\ event[1].outs = 1

\* The event label of the table for a pitch label at a count
TableLabel(pitch, balls, strikes) ==
    IF pitch = "ball" /\ balls = 3 THEN "walk"
    ELSE IF pitch = "strike_called" /\ strikes = 2 THEN "strikeout_looking"
    ELSE IF pitch \in {"strike_swinging", "foul_tip"} /\ strikes = 2 THEN "strikeout_swinging"
    ELSE pitch

\* C13: the event label is the one the table gives for (pitch label, balls,
\* strikes), and an out is recorded exactly when that label is a strikeout.
C13_EventLabelTable ==
    Returned =>
        /\ event[1].event_type = TableLabel(pitch_result, prev.balls, prev.strikes)
        /\ IF event[1].event_type \in Strikeouts
           THEN \/ state.outs = prev.outs + 1
                \/ prev.outs = 2 /\ state.outs = 0 /\ state.top # prev.top
           ELSE state.outs = prev.outs /\ state.top = prev.top /\ state.inning = prev.inning

C13_Witness ==
    /\ Returned /\ pitch_result = "strike_called" /\ prev.strikes = 2 /\ prev.balls = 3
    /\ event[1].event_type = "strikeout_looking" /\ state.outs = prev.outs + 1

\* C14: on a valid state with balls = 3, 'ball' puts current_batter_id on first
\* and leaves outs, inning and top unchanged; with the bases empty beforehand,
\* second and third stay empty and no run scores.
C14_WalkPutsBatterOnFirst ==
    (Called /\ PrevValid /\ pitch_result = "ball" /\ prev.balls = 3) =>
        /\ raised = NoError
        /\ state.bases[1] = prev.current_batter_id
        /\ state.outs = prev.outs
        /\ state.inning = prev.inning
        /\ state.top = prev.top
        /\ (prev.bases = EmptyBases) =>
               (state.bases[2] = None /\ state.bases[3] = None /\ state.score = prev.score)

C14_Witness ==
    /\ Called /\ PrevValid /\ pitch_result = "ball" /\ prev.balls = 3
    /\ prev.bases = EmptyBases /\ prev.current_batter_id = "a1"
    /\ state.bases = <<"a1", None, None>> /\ state.score = prev.score

----------------------------------------------------------------------------
(* The validator, as apply_pitch runs it on the state it is passed *)

Validated == Called /\ Recognized
Count(b) == IF b THEN 1 ELSE 0
LineupOf(s, team) == IF team \in DOMAIN s.lineups THEN s.lineups[team] ELSE <<>>
Ids(lineup) == {lineup[i] : i \in DOMAIN lineup}
RepeatedIds(lineup) ==
    {p \in Ids(lineup) : Cardinality({i \in DOMAIN lineup : lineup[i] = p}) > 1}
\* Base slots whose runner already stands on a lower base
RepeatedRunnerSlots(bases) ==
    {i \in DOMAIN bases : bases[i] # None /\ \E j \in DOMAIN bases : j < i /\ bases[j] = bases[i]}

\* Violations among the checks of outs, inning, scores, lineup size and lineup duplicates
ListedViolations(s) ==
    Count(s.outs \notin 0..2) + Count(s.inning < 1)
    + Count(s.score.home < 0 \/ s.score.away < 0)
    + Count(Len(LineupOf(s, "home")) # 9) + Cardinality(RepeatedIds(LineupOf(s, "home")))
    + Count(Len(LineupOf(s, "away")) # 9) + Cardinality(RepeatedIds(LineupOf(s, "away")))

\* Violations among the checks of balls, strikes and runners
CountViolations(s) ==
    Count(s.balls \notin 0..3) + Count(s.strikes \notin 0..2)
    + Cardinality(RepeatedRunnerSlots(s.bases))

\* The place of a message in declaration order
Place(m) ==
    IF m.text = "outs must be in range [0, {MAX_OUTS}], got {state.outs}" THEN 1
    ELSE IF m.text = "balls must be in range [0, {MAX_BALLS}], got {state.balls}" THEN 2
    ELSE IF m.text = "strikes must be in range [0, {MAX_STRIKES}], got {state.strikes}" THEN 3
    ELSE IF m.text = "inning must be >= {MIN_INNING}, got {state.inning}" THEN 4
    ELSE IF m.text = "scores must be non-negative, got {scores}" THEN 5
    ELSE IF m.text = "lineup must contain exactly {LINEUP_SIZE} players, got {count} for {team}"
    THEN (IF m.strs[1] = "home" THEN 6 ELSE 8)
    ELSE IF m.text = "duplicate player '{duplicate}' in {team} lineup"
    THEN (IF m.strs[2] = "home" THEN 7 ELSE 9)
    ELSE 10

IsDuplicatePlayer(m) == Place(m) \in {7, 9}

\* Declaration order; a team's duplicates in ascending order of identifier;
\* no other message twice, except one per repeated runner slot
InDeclarationOrder(errors) ==
    \A i, j \in DOMAIN errors :
        i < j =>
            /\ Place(errors[i]) <= Place(errors[j])
            /\ (Place(errors[i]) = Place(errors[j])) =>
                   IF IsDuplicatePlayer(errors[i])
                   THEN Rank(errors[i].strs[1]) < Rank(errors[j].strs[1])
                   ELSE Place(errors[i]) = 10

\* The duplicate messages of a team name exactly its repeated identifiers
NamesRepeatedIds(errors, s, team) ==
    {errors[i].strs[1] : i \in {k \in DOMAIN errors :
                                  IsDuplicatePlayer(errors[k]) /\ errors[k].strs[2] = team}}
        = RepeatedIds(LineupOf(s, team))

\* C15 as stated: a state with N violations among the checks of outs, inning,
\* scores, lineup size and lineup duplicates yields exactly N errors, not
\* valid, in the order outs, inning, scores, then per team size and duplicates.
C15_ExactlyListedViolations ==
    (Validated /\ ListedViolations(prev) >= 1) =>
        /\ Len(validate_state(prev).errors) = ListedViolations(prev)
        /\ ~validate_state(prev).is_valid
        /\ InDeclarationOrder(validate_state(prev).errors)

\* C15 amended: validate_state reports every violation of every check it makes:
\* N violations among outs, balls, strikes, inning, scores, per-team size,
\* per-team repeated identifiers and repeated runner slots yield exactly N
\* errors (not valid when N >= 1), in that declaration order, home before away,
\* the size error before the team's duplicates, the duplicates sorted.
C15_ExactlyAllViolations ==
    Validated =>
        /\ Len(validate_state(prev).errors) = ListedViolations(prev) + CountViolations(prev)
        /\ validate_state(prev).is_valid = (ListedViolations(prev) + CountViolations(prev) = 0)
        /\ InDeclarationOrder(validate_state(prev).errors)
        /\ NamesRepeatedIds(validate_state(prev).errors, prev, "home")
        /\ NamesRepeatedIds(validate_state(prev).errors, prev, "away")

C15_Witness ==
    /\ Validated
    /\ LineupOf(prev, "home") = SHORT_DUP_LINEUP /\ LineupOf(prev, "away") = TWO_DUP_LINEUP
    /\ prev.outs = 3 /\ prev.balls = 4 /\ prev.inning = 0 /\ prev.score.away = -1
    /\ prev.bases # EmptyBases
    /\ Len(validate_state(prev).errors) = 11
    /\ raised = ValidationError

\* The invariants of a GameState
StateInvariants(s) ==
    /\ s.outs \in 0..2
    /\ s.balls \in 0..3
    /\ s.strikes \in 0..2
    /\ s.inning >= 1
    /\ s.score.home >= 0
    /\ s.score.away >= 0
    /\ \A team \in {"home", "away"} :
          Len(LineupOf(s, team)) = 9 /\ Cardinality(Ids(LineupOf(s, team))) = 9
    /\ \A i, j \in DOMAIN s.bases :
          (i # j /\ s.bases[i] # None) => s.bases[i] # s.bases[j]

\* C16: is_valid is true iff errors is empty, which is exactly when every
\* invariant of the state holds; apply_pitch accepts the state exactly then.
C16_ValidIffInvariants ==
    Validated =>
        /\ validate_state(prev).is_valid = (validate_state(prev).errors = <<>>)
        /\ validate_state(prev).is_valid = StateInvariants(prev)
        /\ (raised = NoError) = StateInvariants(prev)

C16_Witness ==
    /\ Validated
    /\ prev.balls = 4 /\ ListedViolations(prev) = 0 /\ prev.strikes = 0
    /\ prev.bases = EmptyBases
    /\ ~validate_state(prev).is_valid /\ raised = ValidationError

----------------------------------------------------------------------------
(* Bootstrap: initial_game_state called with any lineups, at any time; a   *)
(* call that raises leaves the driver with the game it had.                *)

BootLineupInputs ==
    {HOME_LINEUP, AWAY_LINEUP, SHORT_LINEUP, DUP_LINEUP, TWO_DUP_LINEUP, <<>>}

InitialGameState(home_lineup, away_lineup) ==
    \E r \in {initial_game_state(home_lineup, away_lineup)} :
        /\ call' = [op |-> "initial_game_state", arg |-> <<home_lineup, away_lineup>>]
        /\ prev' = state
        /\ pitch_result' = NoPitch
        /\ raised' = r.raised
        /\ message' = IF r.raised = NoError THEN NoMessage ELSE r.message
        /\ state' = IF r.raised = NoError THEN r.new_state ELSE state
        /\ event' = <<>>
        /\ pa_calls' = IF r.raised = NoError THEN 0 ELSE pa_calls

NextBoot ==
    \/ \E pitch \in PitchInputs : ApplyPitch(pitch)
    \/ \E home \in BootLineupInputs, away \in BootLineupInputs : InitialGameState(home, away)

SpecBoot == Init /\ [][NextBoot]_vars

Booted == call.op = "initial_game_state"
WellFormed(lineup) == Len(lineup) = 9 /\ Cardinality(Ids(lineup)) = 9

\* C17: initial_game_state succeeds exactly when both lineups have 9 entries
\* and no duplicate; otherwise it raises ValidationError naming the offending
\* team, home before away; on success the state is inning 1, top, count and
\* outs 0, bases empty, score 0-0, batter the first away entry, pitcher the
\* first home entry, and it passes validate_state.
C17_InitialGameState ==
    Booted =>
        /\ (raised = NoError) = (WellFormed(call.arg[1]) /\ WellFormed(call.arg[2]))
        /\ ~WellFormed(call.arg[1]) =>
               (raised = ValidationError /\ message.strs[1] = "home" /\ state = prev)
        /\ (WellFormed(call.arg[1]) /\ ~WellFormed(call.arg[2])) =>
               (raised = ValidationError /\ message.strs[1] = "away" /\ state = prev)
        /\ (raised = NoError) =>
               /\ state = [inning |-> 1, top |-> TRUE, outs |-> 0, balls |-> 0, strikes |-> 0,
                           bases |-> EmptyBases, score |-> [home |-> 0, away |-> 0],
                           current_batter_id |-> call.arg[2][1],
                           current_pitcher_id |-> call.arg[1][1],
                           lineups |-> [home |-> call.arg[1], away |-> call.arg[2]]]
               /\ validate_state(state).is_valid

C17_Witness ==
    /\ Booted /\ call.arg = <<DUP_LINEUP, SHORT_LINEUP>>
    /\ raised = ValidationError /\ message.strs = <<"home", "a1">>
    /\ prev.inning = 2 /\ state = prev

----------------------------------------------------------------------------
(* serializer.py.  A JSON text is modelled by the JSON value it denotes: a  *)
(* value tagged null, true, false, number or string, an array (a sequence) *)
(* or an object (a record).                                                *)

\* json.dumps on an int, a bool, and an optional str
json_int(n) == [t |-> "number", v |-> n]
json_bool(b) == [t |-> IF b THEN "true" ELSE "false"]
json_optional_str(x) == IF x = None THEN [t |-> "null"] ELSE [t |-> "string", v |-> x]

\* json.loads on a scalar
json_scalar(j) ==
    CASE j.t = "null" -> None
      [] j.t = "true" -> TRUE
      [] j.t = "false" -> FALSE
      [] OTHER -> j.v

_state_to_dict(s) ==
    [inning |-> s.inning,
     top |-> s.top,
     outs |-> s.outs,
     bases |-> s.bases,
     score |-> [home |-> s.score.home, away |-> s.score.away],
     current_batter_id |-> s.current_batter_id,
     current_pitcher_id |-> s.current_pitcher_id]

json_dumps(d) ==
    [inning |-> json_int(d.inning),
     top |-> json_bool(d.top),
     outs |-> json_int(d.outs),
     bases |-> [i \in DOMAIN d.bases |-> json_optional_str(d.bases[i])],
     score |-> [home |-> json_int(d.score.home), away |-> json_int(d.score.away)],
     current_batter_id |-> json_optional_str(d.current_batter_id),
     current_pitcher_id |-> json_optional_str(d.current_pitcher_id)]

json_loads(text) ==
    [inning |-> json_scalar(text.inning),
     top |-> json_scalar(text.top),
     outs |-> json_scalar(text.outs),
     bases |-> [i \in DOMAIN text.bases |-> json_scalar(text.bases[i])],
     score |-> [home |-> json_scalar(text.score.home), away |-> json_scalar(text.score.away)],
     current_batter_id |-> json_scalar(text.current_batter_id),
     current_pitcher_id |-> json_scalar(text.current_pitcher_id)]

\* data.get(key): None when the key is absent
dict_get(data, key) == IF key \in DOMAIN data THEN data[key] ELSE None

\* Variant of _dict_to_state that reads the two scores crosswise: the round
\* trip C18 must tell it apart.
_dict_to_state_scores_crossed(data) ==
    GameState(data.inning, data.top, data.outs, 0, 0, data.bases,
              Score(data.score.away, data.score.home),
              dict_get(data, "current_batter_id"), dict_get(data, "current_pitcher_id"),
              DEFAULT_LINEUPS)

\* balls, strikes and lineups are not passed: the dataclass defaults apply
_dict_to_state(data) ==
    GameState(data.inning, data.top, data.outs, 0, 0, data.bases,
              Score(data.score.home, data.score.away),
              dict_get(data, "current_batter_id"), dict_get(data, "current_pitcher_id"),
              DEFAULT_LINEUPS)

serialize_state(s) == json_dumps(_state_to_dict(s))

deserialize_state(json_str) == _dict_to_state(json_loads(json_str))

SerializeState ==
    /\ call.op # "serialize_state"
    /\ call' = [op |-> "serialize_state", arg |-> serialize_state(state)]
    /\ prev' = state
    /\ pitch_result' = NoPitch
    /\ raised' = NoError
    /\ message' = NoMessage
    /\ event' = <<>>
    /\ UNCHANGED <<state, pa_calls>>

\* deserialize_state on the text the last call produced; prev stays the state
\* that text was made from
DeserializeState ==
    /\ call.op = "serialize_state"
    /\ call' = [op |-> "deserialize_state", arg |-> call.arg]
    /\ state' = deserialize_state(call.arg)
    /\ pa_calls' = 0
    /\ UNCHANGED <<prev, pitch_result, raised, message, event>>

NextCodec == SerializeState \/ DeserializeState

SpecCodec == InitAny /\ [][NextCodec]_vars

RoundTripped == call.op = "deserialize_state"

\* C18: deserialize_state(serialize_state(s)) equals a valid s in every field
\* the record carries: inning, top, outs, bases, score.home, score.away,
\* current_batter_id and current_pitcher_id.
C18_RoundTrip ==
    (RoundTripped /\ PrevValid) =>
        /\ state.inning = prev.inning
        /\ state.top = prev.top
        /\ state.outs = prev.outs
        /\ state.bases = prev.bases
        /\ state.score.home = prev.score.home
        /\ state.score.away = prev.score.away
        /\ state.current_batter_id = prev.current_batter_id
        /\ state.current_pitcher_id = prev.current_pitcher_id

C18_Witness ==
    /\ RoundTripped /\ PrevValid
    /\ prev.bases = <<"a2", None, "a4">> /\ prev.score = [home |-> 0, away |-> 1]
    /\ ~prev.top /\ prev.balls = 3 /\ prev.current_batter_id = "a1"
    /\ call.arg.bases[2] = [t |-> "null"]
    /\ state.bases = prev.bases /\ state.balls = 0 /\ state.lineups = DEFAULT_LINEUPS

----------------------------------------------------------------------------
(* models.py: the GameState constructor.  A lineups argument is modelled   *)
(* with the Python types __post_init__ looks at: whether the mapping is a  *)
(* MappingProxyType (else a dict), and for each team it names whether the  *)
(* entry is a tuple (else a list).                                         *)

TypeError == "TypeError"
LINEUPS_IMMUTABLE_ERROR ==
    Msg("lineups must be an immutable mapping (MappingProxyType)", <<>>, <<>>)
LINEUPS_TUPLE_ERROR == Msg("lineups must contain tuples for each team", <<>>, <<>>)

\* Variant of __post_init__ that checks the mapping's type only (the test of
\* the entries dropped): C19 must tell it apart.
GameState__post_init__mapping_only(lineups) ==
    IF ~lineups.proxy
    THEN Raise(TypeError, LINEUPS_IMMUTABLE_ERROR)
    ELSE [raised |-> NoError]

GameState__post_init__(lineups) ==
    IF ~lineups.proxy
    THEN Raise(TypeError, LINEUPS_IMMUTABLE_ERROR)
    ELSE IF ~\A team \in DOMAIN lineups.entries : lineups.entries[team].tuple
    THEN Raise(TypeError, LINEUPS_TUPLE_ERROR)
    ELSE [raised |-> NoError]

\* The entry of one team in a lineups argument: absent, or a tuple or a list
TeamEntryInputs(players) ==
    {<<>>} \cup {<<[tuple |-> tp, players |-> pl]>> : tp \in BOOLEAN, pl \in {players, <<>>}}

\* A mapping from the entries given (a one-element sequence names the team)
EntriesOf(home, away) ==
    [team \in {tm \in {"home", "away"} : (IF tm = "home" THEN home ELSE away) # <<>>} |->
        IF team = "home" THEN home[1] ELSE away[1]]

LineupsArgInputs ==
    {[proxy |-> px, entries |-> EntriesOf(home, away)] :
        px \in BOOLEAN,
        home \in TeamEntryInputs(HOME_LINEUP), away \in TeamEntryInputs(AWAY_LINEUP)}

\* GameState(inning=1, top=True, outs=outs, bases=(None, None, None),
\*           score=Score(), balls=balls, lineups=lineups)
Construct(outs, balls, lineups) ==
    \E r \in {GameState__post_init__(lineups)} :
        /\ call' = [op |-> "GameState", arg |-> lineups]
        /\ prev' = state
        /\ pitch_result' = NoPitch
        /\ raised' = r.raised
        /\ message' = IF r.raised = NoError THEN NoMessage ELSE r.message
        /\ state' = IF r.raised = NoError
                    THEN GameState(1, TRUE, outs, balls, 0, <<None, None, None>>, Score(0, 0),
                                   None, None,
                                   [team \in DOMAIN lineups.entries |->
                                       lineups.entries[team].players])
                    ELSE state
        /\ event' = <<>>
        /\ pa_calls' = IF r.raised = NoError THEN 0 ELSE pa_calls

NextConstruct ==
    \E outs \in 0..MAX_OUTS, balls \in {0, MAX_BALLS}, lineups \in LineupsArgInputs :
        Construct(outs, balls, lineups)

SpecConstruct == Init /\ [][NextConstruct]_vars

Constructed == call.op = "GameState"
BothPresent(lineups) == {"home", "away"} \subseteq DOMAIN lineups.entries
DepthImmutable(lineups) ==
    lineups.proxy /\ \A team \in DOMAIN lineups.entries : lineups.entries[team].tuple

----------------------------------------------------------------------------

\* C20: no apply_pitch call changes lineups, current_batter_id or
\* current_pitcher_id: over any sequence of pitches from any state, walks,
\* strikeouts and half-inning flips included, the three keep their values.
C20_PitchKeepsLineupsBatterPitcher ==
    [][/\ state'.lineups = state.lineups
       /\ state'.current_batter_id = state.current_batter_id
       /\ state'.current_pitcher_id = state.current_pitcher_id]_vars

C20_Witness ==
    /\ Returned /\ prev.outs = 2 /\ event[1].event_type \in Strikeouts
    /\ prev.top /\ ~state.top
    /\ prev.current_batter_id = "a1" /\ state.current_batter_id = "a1"
    /\ state.current_pitcher_id = "h1" /\ state.lineups = VALID_LINEUPS

----------------------------------------------------------------------------

\* The half-inning of a state
Half(s) == <<s.inning, s.top>>

\* C21: over any sequence of apply_pitch calls, (inning, top) changes only on
\* the call that records the third out (a strikeout returned from outs = 2);
\* inning never decreases and grows by at most 1 per call, and only when the
\* bottom half gives way to a top half; outs never decreases while the
\* half-inning stays the same; neither score component ever decreases.
C21_HalfInningOrdering ==
    [][/\ (Half(state') # Half(state)) =>
              /\ raised' = NoError
              /\ state.outs = 2
              /\ event'[1].event_type \in Strikeouts
              /\ state'.top = ~state.top
       /\ state'.inning \in {state.inning, state.inning + 1}
       /\ (state'.inning = state.inning + 1) => (~state.top /\ state'.top)
       /\ (Half(state') = Half(state)) => (state'.outs >= state.outs)
       /\ state'.score.home >= state.score.home
       /\ state'.score.away >= state.score.away]_vars

C21_Witness ==
    /\ Returned /\ prev.outs = 2 /\ event[1].event_type \in Strikeouts
    /\ ~prev.top /\ state.top /\ state.inning = prev.inning + 1
    /\ state.outs = 0
    /\ prev.score.home = MaxScore /\ state.score = prev.score

----------------------------------------------------------------------------

\* The count of a state as one number, and the call that leaves it alone
CountSum(s) == s.balls + s.strikes
FoulAtTwoStrikes == pitch_result = "foul" /\ prev.strikes = 2

\* C22: every apply_pitch call that returns, other than a foul at two
\* strikes, either raises balls + strikes by exactly 1 or ends the plate
\* appearance with a walk or a strikeout; no plate appearance sees more than
\* 5 such calls, the fifth leaves the count full (3-2), and the next such
\* call on a full count ends it.  A plate appearance can therefore be kept
\* going without end only by fouls at two strikes.
C22_BoundedPlateAppearance ==
    /\ (Returned /\ ~FoulAtTwoStrikes) =>
           \/ event[1].event_type \in PlateAppearanceEnds
           \/ CountSum(state) = CountSum(prev) + 1
    /\ (Returned /\ FoulAtTwoStrikes) =>
           event[1].event_type \notin PlateAppearanceEnds
    /\ pa_calls <= 5
    /\ (pa_calls = 5) => (state.balls = 3 /\ state.strikes = 2)
    /\ (Returned /\ ~FoulAtTwoStrikes /\ CountSum(prev) = 5) =>
           event[1].event_type \in PlateAppearanceEnds

C22_Witness ==
    /\ Returned /\ ~FoulAtTwoStrikes
    /\ pa_calls = 5 /\ CountSum(prev) = 4 /\ CountSum(state) = 5
    /\ event[1].event_type \notin PlateAppearanceEnds

====
